---- MODULE Spec2Model ----
(***************************************************************************)
(* Model of scripts/pricenow_etl.py: the forward-fill grid builder, the    *)
(* credential lifecycle and authenticated fetch, the paginated retriever,  *)
(* the active-window rule, the chunked writer, a whole run of __main__ and *)
(* two invocations sharing the token cache file.  Each component has its   *)
(* own specification (SpecGrid, SpecAuth, SpecPages, SpecActive,           *)
(* SpecWriter, SpecMain, SpecRace) over a shared set of variables; a       *)
(* specification leaves the other components' variables at their initial   *)
(* values.                                                                 *)
(***************************************************************************)
EXTENDS Integers, Sequences, FiniteSets, TLC

VARIABLES
    \* forward_fill_daily_grid
    change_rows,        \* the input event sequence (arrival order)
    season_start,       \* date (ordinal)
    season_end,         \* date (ordinal)
    dense,              \* the returned list of rows
    ff_pc,              \* "input" | "done"
    reordered,          \* TRUE once the input was reordered and the grid rebuilt
    \* credential lifecycle and authenticated fetch
    now,                \* time.time(), in seconds
    token,              \* _token
    token_expires_at,   \* _token_expires_at
    cache_file,         \* CACHE_FILE
    issued,             \* number of tokens the identity provider has issued
    au_pc,              \* position inside _authed_get / _authed_get_pricing
    api,                \* "main" (_authed_get) | "pricing" (_authed_get_pricing)
    hdr_token,          \* the token of headers["Authorization"]
    resp,               \* status_code of resp
    trace,              \* this fetch's disk reads, exchanges and GET requests, in order
    gt,                 \* the last call of _get_token: its inputs and outcome
    fetches,            \* number of fetches that have returned
    \* get_prices_all
    endpoint,           \* the pricing endpoint: its kind and the rows it holds
    page_size,
    max_pages,
    page,
    all_rows,
    requested,          \* the page numbers requested, in order
    page_lens,          \* the number of rows of each page received, in order
    pg_pc,              \* "loop" | "done" | "raised"
    \* active flag of make_pricenow_prices_df
    duration_code,      \* the product's duration attribute
    duration_map,       \* product id -> duration in days
    valid_from,         \* the dense row's valid_from, an ISO string
    active,
    act_pc,             \* "catalog" | "prices" | "walk" | "done"
    \* the writer: upsert_df and the two table upserts
    w_plan,             \* the calls to make, in order: function, DataFrame, chunk_size
    w_job,              \* index into w_plan of the call in progress
    w_records,          \* records of the upsert_df call in progress
    w_i,                \* the loop variable i of upsert_df
    w_store,            \* table name -> set of stored rows
    w_store0,           \* w_store before the first run
    w_store1,           \* w_store after the first run
    w_calls,            \* the upsert calls of this run, in order
    w_pc,               \* "call" | "loop" | "done" | "raised"
    w_run,              \* 1, or 2 when the same plan is run again
    \* one run of __main__
    m_pc,               \* "catalog" | "prices" | "frame" | "write_prices" |
                        \* "write_products" | "done" | "raised"
    m_products_df,      \* pricenow_products_df
    m_product_ids,      \* product_ids
    m_duration_map,     \* duration_map
    m_log,              \* the writes and reads of duration_map, in order
    m_page,             \* page of get_prices_all
    m_all_rows,         \* all_rows of get_prices_all
    m_requests,         \* the requests made and the status each ended with
    m_prices_df,        \* pricenow_prices_df
    m_upserts,          \* the upsert calls issued, in order
    m_store,            \* table name -> set of stored rows
    \* two invocations of _get_token sharing the cache file
    r_pc,               \* invocation -> "start" | "post" | "reply" | "done" | "raised"
    r_mem,              \* invocation -> its _token and _token_expires_at
    r_file,             \* CACHE_FILE
    r_issued,           \* number of tokens the identity provider has issued
    r_reply,            \* invocation -> the response its POST is answered with
    r_saw,              \* invocation -> what it made of the cache file
    r_writes,           \* the tokens written to the file, in order
    r_exchanged,        \* the tokens of the successful exchanges, in order
    r_overlap           \* TRUE once two invocations were in progress together

grid_vars == <<change_rows, season_start, season_end, dense, ff_pc, reordered>>

auth_vars == <<now, token, token_expires_at, cache_file, issued, au_pc, api,
               hdr_token, resp, trace, gt, fetches>>

pages_vars == <<endpoint, page_size, max_pages, page, all_rows, requested,
                page_lens, pg_pc>>

active_vars == <<duration_code, duration_map, valid_from, active, act_pc>>

writer_vars == <<w_plan, w_job, w_records, w_i, w_store, w_store0, w_store1,
                 w_calls, w_pc, w_run>>

\* the components that have a section of their own further down
main_vars == <<m_pc, m_products_df, m_product_ids, m_duration_map, m_log, m_page,
               m_all_rows, m_requests, m_prices_df, m_upserts, m_store>>

race_vars == <<r_pc, r_mem, r_file, r_issued, r_reply, r_saw, r_writes,
               r_exchanged, r_overlap>>

later_vars == <<writer_vars, main_vars, race_vars>>

vars == <<grid_vars, auth_vars, pages_vars, active_vars, later_vars>>

\* product ids and prices (minor currency units) used as inputs
Pids   == {1, 2}
Prices == {10, 20}

Min(S) == CHOOSE x \in S : \A y \in S : x <= y
Max(S) == CHOOSE x \in S : \A y \in S : y <= x

(***************************************************************************)
(* Calendar.  A datetime.date is modelled by its ordinal: the number of    *)
(* days since 2025-11-01.  date + timedelta(days=1) is n + 1, (a - b).days *)
(* is a - b and date comparison is integer comparison.  An ISO string      *)
(* 'YYYY-MM-DD' is modelled by the triple <<YYYY, MM, DD>>: the fields are *)
(* zero padded and of fixed width, so Python's string comparison of two    *)
(* such strings is the lexicographic comparison of the triples.            *)
(***************************************************************************)
MonthTable ==
    << <<2025, 11, 30>>, <<2025, 12, 31>>, <<2026, 1, 31>>, <<2026, 2, 28>>,
       <<2026, 3, 31>>,  <<2026, 4, 30>>,  <<2026, 5, 31>> >>

RECURSIVE DaysBefore(_)
\* days of the table's months before month number k of the table
DaysBefore(k) == IF k <= 1 THEN 0 ELSE DaysBefore(k - 1) + MonthTable[k - 1][3]

\* date(y, m, d)
date(y, m, d) ==
    LET k == CHOOSE i \in 1..Len(MonthTable) :
                 MonthTable[i][1] = y /\ MonthTable[i][2] = m
    IN  DaysBefore(k) + (d - 1)

\* date.isoformat(): 'YYYY-MM-DD'
isoformat(n) ==
    LET k == CHOOSE i \in 1..Len(MonthTable) :
                 DaysBefore(i) <= n /\ n < DaysBefore(i) + MonthTable[i][3]
    IN  <<MonthTable[k][1], MonthTable[k][2], n - DaysBefore(k) + 1>>

\* datetime.strptime(s, "%Y-%m-%d").date()
strptime(s) == date(s[1], s[2], s[3])

\* s <= t on two ISO strings (Python compares strings lexicographically)
StrLeq(s, t) ==
    \/ s[1] < t[1]
    \/ s[1] = t[1] /\ s[2] < t[2]
    \/ s[1] = t[1] /\ s[2] = t[2] /\ s[3] <= t[3]

(***************************************************************************)
(* forward_fill_daily_grid.  A change row is a record; r.get(k) is None    *)
(* when the key k is missing from it.                                      *)
(***************************************************************************)
RowKeys == {"productDefinitionId", "validAt", "price"}

\* the rows the grouping loop keeps: none of the three fields is None
Usable(r) == RowKeys \subseteq DOMAIN r

RECURSIVE PidOrder(_)
\* the keys of by_pid in insertion order (first arrival of a usable row)
PidOrder(rows) ==
    IF rows = <<>> THEN <<>>
    ELSE LET init == PidOrder(SubSeq(rows, 1, Len(rows) - 1))
             r    == rows[Len(rows)]
         IN  IF ~Usable(r) THEN init
             ELSE IF \E i \in 1..Len(init) : init[i] = r.productDefinitionId
                  THEN init
                  ELSE Append(init, r.productDefinitionId)

RECURSIVE GroupOf(_, _)
\* by_pid[pid]: the usable rows of pid, in arrival order, reduced to validAt and price
GroupOf(pid, rows) ==
    IF rows = <<>> THEN <<>>
    ELSE LET init == GroupOf(pid, SubSeq(rows, 1, Len(rows) - 1))
             r    == rows[Len(rows)]
         IN  IF Usable(r) /\ r.productDefinitionId = pid
             THEN Append(init, [validAt |-> r.validAt, price |-> r.price])
             ELSE init

\* the position a stable sort gives x among the sorted rows: after every row
\* whose key is <= x's key
InsertStable(sorted, x) ==
    LET k == Cardinality({i \in 1..Len(sorted) : StrLeq(sorted[i].validAt, x.validAt)})
    IN  SubSeq(sorted, 1, k) \o <<x>> \o SubSeq(sorted, k + 1, Len(sorted))

\* a "sort" that leaves the rows in arrival order
SortByValidAt_none(rows) == rows

RECURSIVE SortByValidAt_unstable(_)
\* a sort that puts a row before the rows of equal key that arrived earlier
SortByValidAt_unstable(rows) ==
    IF rows = <<>> THEN <<>>
    ELSE LET sorted == SortByValidAt_unstable(SubSeq(rows, 1, Len(rows) - 1))
             x      == rows[Len(rows)]
             k      == Cardinality({i \in 1..Len(sorted) :
                                      StrLeq(sorted[i].validAt, x.validAt)
                                      /\ sorted[i].validAt # x.validAt})
         IN  SubSeq(sorted, 1, k) \o <<x>> \o SubSeq(sorted, k + 1, Len(sorted))

RECURSIVE SortByValidAt(_)
\* rows.sort(key=lambda x: x["validAt"]): stable, by string comparison
SortByValidAt(rows) ==
    IF rows = <<>> THEN <<>>
    ELSE InsertStable(SortByValidAt(SubSeq(rows, 1, Len(rows) - 1)), rows[Len(rows)])

\* the cursor: idx is the number of rows passed (the code's idx + 1);
\* current_price is None while has_price is FALSE
NoCursor == [idx |-> 0, has_price |-> FALSE, current_price |-> 0]

RECURSIVE FastForwardFrom(_, _, _, _)
FastForwardFrom(rows, start_iso, i, cur) ==
    IF i > Len(rows) THEN cur
    ELSE IF StrLeq(rows[i].validAt, start_iso)
         THEN FastForwardFrom(rows, start_iso, i + 1,
                  [idx |-> i, has_price |-> TRUE, current_price |-> rows[i].price])
         ELSE cur    \* break

\* fast-forward idx/current_price to the last change <= season_start
FastForward(rows, start) == FastForwardFrom(rows, isoformat(start), 1, NoCursor)

RECURSIVE Advance_strict(_, _, _)
\* the advance loop with < in place of <=: a change takes effect a day late
Advance_strict(rows, cur, day_iso) ==
    IF cur.idx + 1 <= Len(rows) /\ StrLeq(rows[cur.idx + 1].validAt, day_iso)
                                /\ rows[cur.idx + 1].validAt # day_iso
    THEN Advance_strict(rows,
                 [idx |-> cur.idx + 1, has_price |-> TRUE,
                  current_price |-> rows[cur.idx + 1].price],
                 day_iso)
    ELSE cur

RECURSIVE Advance(_, _, _)
\* while (idx + 1) < len(rows) and rows[idx + 1]["validAt"] <= day.isoformat()
Advance(rows, cur, day_iso) ==
    IF cur.idx + 1 <= Len(rows) /\ StrLeq(rows[cur.idx + 1].validAt, day_iso)
    THEN Advance(rows,
                 [idx |-> cur.idx + 1, has_price |-> TRUE,
                  current_price |-> rows[cur.idx + 1].price],
                 day_iso)
    ELSE cur

\* the rows appended for one day, once the cursor has advanced
EmitDay(pid, cur, day) ==
    IF cur.has_price
    THEN << [productDefinitionId |-> pid, valid_from |-> isoformat(day),
             price |-> cur.current_price] >>
    ELSE <<>>

RECURSIVE WalkDays_emit_in_loop(_, _, _, _, _)
\* the append placed inside the advance loop: one row per change passed
WalkDays_emit_in_loop(pid, rows, cur, day, last) ==
    IF day > last THEN <<>>
    ELSE LET next == Advance(rows, cur, isoformat(day))
         IN  [i \in 1..(next.idx - cur.idx) |->
                 [productDefinitionId |-> pid, valid_from |-> isoformat(day),
                  price |-> rows[cur.idx + i].price]]
             \o WalkDays_emit_in_loop(pid, rows, next, day + 1, last)

RECURSIVE WalkDays(_, _, _, _, _)
\* for day in _daterange(season_start, season_end): advance, then emit
WalkDays(pid, rows, cur, day, last) ==
    IF day > last THEN <<>>
    ELSE LET next == Advance(rows, cur, isoformat(day))
         IN  EmitDay(pid, next, day) \o WalkDays(pid, rows, next, day + 1, last)

\* the body of "for pid, rows in by_pid.items()"
GridOfPid(pid, change, start, end) ==
    LET rows == SortByValidAt(GroupOf(pid, change))
    IN  WalkDays(pid, rows, FastForward(rows, start), start, end)

RECURSIVE GridOfPids(_, _, _, _)
GridOfPids(pids, change, start, end) ==
    IF pids = <<>> THEN <<>>
    ELSE GridOfPid(Head(pids), change, start, end)
         \o GridOfPids(Tail(pids), change, start, end)

forward_fill_daily_grid(change, start, end) ==
    GridOfPids(PidOrder(change), change, start, end)

(***************************************************************************)
(* Credential lifecycle.  A token is a one-element tuple, None is <<>>.    *)
(* The cache file is absent, holds text that is not JSON, or holds a JSON  *)
(* object, modelled by a record that may lack either key.                  *)
(***************************************************************************)
None == <<>>

Margin == 60                \* "refresh 60s early"
DefaultExpiresIn == 3600    \* data.get("expires_in", 3600)

\* a key of a JSON object, or the default: dict.get(k, default)
DictGet(d, k, default) == IF k \in DOMAIN d THEN d[k] ELSE default

\* _token_is_valid with <= in place of <
token_is_valid_leq(tok, exp, t) == tok # None /\ t <= exp - Margin

\* _token_is_valid()
token_is_valid(tok, exp, t) == tok # None /\ t < exp - Margin

\* _load_cached_token_file(): (access_token, expires_at), or (None, 0)
load_cached_token_file(file, t) ==
    IF file.exists /\ file.json /\ t < DictGet(file.data, "expires_at", 0) - Margin
    THEN [access_token |-> DictGet(file.data, "access_token", None),
          expires_at   |-> DictGet(file.data, "expires_at", 0)]
    ELSE [access_token |-> None, expires_at |-> 0]

\* a save that puts the token under another key of the JSON object
save_cached_token_file_wrong_key(tok, expires_in, t) ==
    [exists |-> TRUE, json |-> TRUE,
     data |-> [token |-> tok, expires_at |-> t + expires_in]]

\* _save_cached_token_file(token, expires_in)
save_cached_token_file(tok, expires_in, t) ==
    [exists |-> TRUE, json |-> TRUE,
     data |-> [access_token |-> tok, expires_at |-> t + expires_in]]

\* _fetch_token() on the identity provider's response r: the new _token,
\* _token_expires_at and cache file, and whether the call returned (ok) or raised
fetch_token(tok, exp, file, t, r) ==
    IF r.status_code # 200
    THEN [token |-> tok, token_expires_at |-> exp, cache_file |-> file, ok |-> FALSE]
    ELSE IF "access_token" \notin DOMAIN r.data          \* KeyError, line 52
    THEN [token |-> tok, token_expires_at |-> exp, cache_file |-> file, ok |-> FALSE]
    ELSE IF "expires_in" \in DOMAIN r.data /\ ~r.data.expires_in.is_int
    THEN \* int() raises at line 53, after _token was assigned at line 52
         [token |-> r.data.access_token, token_expires_at |-> exp,
          cache_file |-> file, ok |-> FALSE]
    ELSE LET expires_in == IF "expires_in" \in DOMAIN r.data
                           THEN r.data.expires_in.value ELSE DefaultExpiresIn
         IN  [token |-> r.data.access_token, token_expires_at |-> t + expires_in,
              cache_file |-> save_cached_token_file(r.data.access_token, expires_in, t),
              ok |-> TRUE]

\* _get_token() up to the point where it returns or calls _fetch_token():
\* which way it took, what it returns, and _token, _token_expires_at after it
get_token_local(tok, exp, file, t) ==
    IF token_is_valid(tok, exp, t)
    THEN [path |-> "memory", ret |-> tok, token |-> tok, token_expires_at |-> exp]
    ELSE LET c == load_cached_token_file(file, t)
         IN  IF c.access_token # None /\ t < c.expires_at - Margin
             THEN [path |-> "disk", ret |-> c.access_token,
                   token |-> c.access_token, token_expires_at |-> c.expires_at]
             ELSE [path |-> "exchange", ret |-> None,
                   token |-> tok, token_expires_at |-> exp]

(***************************************************************************)
(* Authenticated fetch: _authed_get and _authed_get_pricing, which differ  *)
(* in the version header only.                                             *)
(***************************************************************************)
\* where the wrapper goes after the first response
AfterFirstGet(status) == IF status = 401 THEN "refresh" ELSE "returned"

\* a retry that refreshes and retries again while the response is 401
AfterRetry_again(status) == IF status = 401 THEN "refresh" ELSE "returned"

\* where the wrapper goes after the retry's response: it returns it
AfterRetry(status) == "returned"

\* after the forced refresh the header is built from _get_token()
AfterRefresh == "tok2"

(***************************************************************************)
(* Inputs of the credential specification.                                 *)
(***************************************************************************)
MaxClock   == 3     \* the clock runs from 0 to MaxClock seconds
MaxFetches == 2     \* fetches per run

Statuses == {200, 401, 500}

\* lifetimes the identity provider grants, around the margin
Lifetimes == {Margin, Margin + 1}

\* what the cache file may hold when the process starts
InitialFiles ==
    { [exists |-> FALSE, json |-> FALSE, data |-> <<>>],
      [exists |-> TRUE,  json |-> FALSE, data |-> <<>>],
      [exists |-> TRUE,  json |-> TRUE,  data |-> [expires_at |-> Margin + 2]],
      [exists |-> TRUE,  json |-> TRUE,  data |-> [access_token |-> <<0>>]] }
    \cup { [exists |-> TRUE, json |-> TRUE,
            data |-> [access_token |-> <<0>>, expires_at |-> e]] :
              e \in {Margin, Margin + 1, Margin + 2} }

\* the identity provider's answers to a token request; tok is the token it issues
IdpResponses(tok) ==
    { [status_code |-> 500, data |-> <<>>],
      [status_code |-> 200, data |-> [expires_in |-> [is_int |-> TRUE, value |-> Margin]]],
      [status_code |-> 200, data |-> [access_token |-> tok,
                                      expires_in |-> [is_int |-> FALSE, value |-> 0]]],
      [status_code |-> 200, data |-> [access_token |-> tok]] }
    \cup { [status_code |-> 200,
            data |-> [access_token |-> tok,
                      expires_in |-> [is_int |-> TRUE, value |-> l]]] : l \in Lifetimes }

NoCall == [called |-> FALSE]

\* the variables of the components a specification does not run
WriterIdle ==
    /\ w_plan = <<>> /\ w_job = 0 /\ w_records = <<>> /\ w_i = 0
    /\ w_store = <<>> /\ w_store0 = <<>> /\ w_store1 = <<>>
    /\ w_calls = <<>> /\ w_pc = "idle" /\ w_run = 0

MainIdle ==
    /\ m_pc = "idle" /\ m_products_df = <<>> /\ m_product_ids = <<>>
    /\ m_duration_map = <<>> /\ m_log = <<>> /\ m_page = 0
    /\ m_all_rows = <<>> /\ m_requests = <<>> /\ m_prices_df = <<>>
    /\ m_upserts = <<>> /\ m_store = <<>>

RaceIdle ==
    /\ r_pc = <<>> /\ r_mem = <<>> /\ r_file = <<>> /\ r_issued = 0
    /\ r_reply = <<>> /\ r_saw = <<>> /\ r_writes = <<>>
    /\ r_exchanged = <<>> /\ r_overlap = FALSE

LaterIdle == WriterIdle /\ MainIdle /\ RaceIdle

GridIdle ==
    /\ change_rows = <<>> /\ season_start = 0 /\ season_end = 0
    /\ dense = <<>> /\ ff_pc = "idle" /\ reordered = FALSE

PagesIdle ==
    /\ endpoint = [kind |-> "none", rows |-> <<>>]
    /\ page_size = 0 /\ max_pages = 0 /\ page = 0
    /\ all_rows = <<>> /\ requested = <<>> /\ page_lens = <<>>
    /\ pg_pc = "idle"

ActiveIdle ==
    /\ duration_code = [n |-> 0, unit |-> "d"]
    /\ duration_map = <<>>
    /\ valid_from = <<>>
    /\ active = FALSE
    /\ act_pc = "idle"

\* the credential variables of a process that has just started (lines 417-419)
AuthIdle ==
    /\ now = 0
    /\ token = None
    /\ token_expires_at = 0
    /\ cache_file = [exists |-> FALSE, json |-> FALSE, data |-> <<>>]
    /\ issued = 0
    /\ au_pc = "idle"
    /\ api = "main"
    /\ hdr_token = None
    /\ resp = 0
    /\ trace = <<>>
    /\ gt = NoCall
    /\ fetches = 0

InitAuth ==
    /\ now = 0
    /\ token = None
    /\ token_expires_at = 0
    /\ cache_file \in InitialFiles
    /\ issued = 0
    /\ au_pc = "idle"
    /\ api = "main"
    /\ hdr_token = None
    /\ resp = 0
    /\ trace = <<>>
    /\ gt = NoCall
    /\ fetches = 0
    /\ GridIdle /\ PagesIdle /\ ActiveIdle /\ LaterIdle

\* a caller enters _authed_get or _authed_get_pricing
StartFetch ==
    /\ au_pc = "idle"
    /\ fetches < MaxFetches
    /\ \E a \in {"main", "pricing"} : api' = a
    /\ au_pc' = "tok1"
    /\ trace' = <<>>
    /\ gt' = NoCall
    /\ hdr_token' = None
    /\ resp' = 0
    /\ UNCHANGED <<now, token, token_expires_at, cache_file, issued, fetches>>
    /\ UNCHANGED <<grid_vars, pages_vars, active_vars, later_vars>>

\* _get_token() (lines 72 and 83), up to its return or its call of _fetch_token()
GetToken ==
    /\ au_pc \in {"tok1", "tok2"}
    /\ LET g == get_token_local(token, token_expires_at, cache_file, now)
       IN  /\ token' = g.token
           /\ token_expires_at' = g.token_expires_at
           /\ trace' = IF g.path = "memory" THEN trace ELSE Append(trace, <<"DISK">>)
           /\ gt' = [called |-> TRUE, at |-> Len(trace), tok |-> token,
                     exp |-> token_expires_at, file |-> cache_file, now |-> now,
                     path |-> g.path, ret |-> g.ret]
           /\ IF g.path = "exchange"
              THEN /\ au_pc' = IF au_pc = "tok1" THEN "exch1" ELSE "exch2"
                   /\ UNCHANGED hdr_token
              ELSE /\ au_pc' = IF au_pc = "tok1" THEN "get1" ELSE "get2"
                   /\ hdr_token' = g.ret
    /\ UNCHANGED <<now, cache_file, issued, api, resp, fetches>>
    /\ UNCHANGED <<grid_vars, pages_vars, active_vars, later_vars>>

\* the effect of one call of _fetch_token() on the credential and the trace
Exchange(next_pc, returns_token) ==
    \E r \in IdpResponses(<<issued + 1>>) :
        LET f == fetch_token(token, token_expires_at, cache_file, now, r)
        IN  /\ token' = f.token
            /\ token_expires_at' = f.token_expires_at
            /\ cache_file' = f.cache_file
            /\ issued' = issued + 1
            /\ trace' = Append(trace, <<"EXCH", <<issued + 1>>, f.ok>>)
            /\ au_pc' = IF f.ok THEN next_pc ELSE "raised"
            /\ IF f.ok /\ returns_token
               THEN /\ hdr_token' = f.token
                    /\ gt' = [gt EXCEPT !.ret = f.token]
               ELSE UNCHANGED <<hdr_token, gt>>

\* _get_token() line 67: fetch fresh, then return _token
GetTokenFetch ==
    /\ au_pc \in {"exch1", "exch2"}
    /\ Exchange(IF au_pc = "exch1" THEN "get1" ELSE "get2", TRUE)
    /\ UNCHANGED <<now, api, resp, fetches>>
    /\ UNCHANGED <<grid_vars, pages_vars, active_vars, later_vars>>

\* resp = requests.get(...), the first request
FirstGet ==
    /\ au_pc = "get1"
    /\ \E status \in Statuses :
          /\ trace' = Append(trace, <<"GET", hdr_token, status>>)
          /\ resp' = status
          /\ au_pc' = AfterFirstGet(status)
    /\ UNCHANGED <<now, token, token_expires_at, cache_file, issued, api,
                   hdr_token, gt, fetches>>
    /\ UNCHANGED <<grid_vars, pages_vars, active_vars, later_vars>>

\* lines 82 / 137: _fetch_token(), the forced refresh
Refresh ==
    /\ au_pc = "refresh"
    /\ Exchange(AfterRefresh, AfterRefresh = "get2")
    /\ UNCHANGED <<now, api, resp, fetches>>
    /\ UNCHANGED <<grid_vars, pages_vars, active_vars, later_vars>>

\* lines 84 / 139: the retry
Retry ==
    /\ au_pc = "get2"
    /\ \E status \in Statuses :
          /\ trace' = Append(trace, <<"GET", hdr_token, status>>)
          /\ resp' = status
          /\ au_pc' = AfterRetry(status)
    /\ UNCHANGED <<now, token, token_expires_at, cache_file, issued, api,
                   hdr_token, gt, fetches>>
    /\ UNCHANGED <<grid_vars, pages_vars, active_vars, later_vars>>

\* requests.get raises (timeout, connection error): the fetch raises; the
\* request is logged with status 0, no response
GetRaises ==
    /\ au_pc \in {"get1", "get2"}
    /\ au_pc' = "raised"
    /\ trace' = Append(trace, <<"GET", hdr_token, 0>>)
    /\ UNCHANGED <<now, token, token_expires_at, cache_file, issued, api,
                   hdr_token, resp, gt, fetches>>
    /\ UNCHANGED <<grid_vars, pages_vars, active_vars, later_vars>>

\* return resp
Return ==
    /\ au_pc = "returned"
    /\ au_pc' = "idle"
    /\ fetches' = fetches + 1
    /\ UNCHANGED <<now, token, token_expires_at, cache_file, issued, api,
                   hdr_token, resp, trace, gt>>
    /\ UNCHANGED <<grid_vars, pages_vars, active_vars, later_vars>>

\* a second passes
Tick ==
    /\ now < MaxClock
    /\ au_pc # "raised"
    /\ now' = now + 1
    /\ UNCHANGED <<token, token_expires_at, cache_file, issued, au_pc, api,
                   hdr_token, resp, trace, gt, fetches>>
    /\ UNCHANGED <<grid_vars, pages_vars, active_vars, later_vars>>

NextAuth ==
    \/ StartFetch
    \/ GetToken
    \/ GetTokenFetch
    \/ FirstGet
    \/ Refresh
    \/ Retry
    \/ GetRaises
    \/ Return
    \/ Tick

SpecAuth == InitAuth /\ [][NextAuth]_vars

(***************************************************************************)
(* Paginated retrieval: _extract_rows, get_prices_page, get_prices_all.    *)
(* A JSON value is [type |-> "list", rows |-> <rows>], [type |-> "dict",   *)
(* fields |-> <record of JSON values>] or [type |-> "other"].              *)
(***************************************************************************)
JList(rows) == [type |-> "list", rows |-> rows]
JDict(d)    == [type |-> "dict", fields |-> d]
JOther      == [type |-> "other"]

RECURSIVE FirstListUnder(_, _)
\* for k in ("data", "items", "results"): the first value that is a list
FirstListUnder(d, keys) ==
    IF keys = <<>> THEN <<>>
    ELSE IF Head(keys) \in DOMAIN d /\ d[Head(keys)].type = "list"
         THEN d[Head(keys)].rows
         ELSE FirstListUnder(d, Tail(keys))

\* _extract_rows(payload)
extract_rows(payload) ==
    IF payload.type = "list" THEN payload.rows
    ELSE IF payload.type = "dict"
         THEN FirstListUnder(payload.fields, <<"data", "items", "results">>)
         ELSE <<>>

\* the loop condition with <= in place of <
LoopGuard_leq(p, ceiling) == p <= ceiling

\* while page < max_pages
LoopGuard(p, ceiling) == p < ceiling

\* the last-page test with <= in place of <
LastPage_leq(rows, size) == Len(rows) <= size

\* if len(rows) < page_size: break
LastPage(rows, size) == Len(rows) < size

(***************************************************************************)
(* The pricing endpoint.  A "fixed" endpoint holds a list of rows and      *)
(* answers page p of size n with rows[p*n : (p+1)*n], as a bare list or    *)
(* under one of the wrapper keys; an "arbitrary" endpoint answers with any *)
(* status and a payload of any shape holding any number of rows from none  *)
(* to page_size + 1 (its rows are all alike: only their number matters to  *)
(* the loop).                                                              *)
(***************************************************************************)
MaxRows     == 5    \* longest list a fixed endpoint holds
MaxPageSize == 2    \* page_size ranges over 1..MaxPageSize
MaxPages    == 3    \* max_pages ranges over 0..MaxPages

RowVals == {"a", "b"}

SeqsUpTo(S, n) == UNION { [1..k -> S] : k \in 0..n }

PageSlice(rows, p, size) ==
    SubSeq(rows, p * size + 1,
           IF (p + 1) * size < Len(rows) THEN (p + 1) * size ELSE Len(rows))

\* the shapes in which the endpoint hands out a page
Wrappings(rows) ==
    { JList(rows),
      JDict([data |-> JList(rows)]),
      JDict([items |-> JList(rows)]),
      JDict([results |-> JList(rows)]),
      JDict([data |-> JOther, results |-> JList(rows)]),
      JDict([data |-> JList(rows), items |-> JList(<<>>)]) }

\* the responses get_prices_page may see for a page request
Responses(ep, p, size) ==
    IF ep.kind = "fixed"
    THEN { [ok |-> TRUE, payload |-> w] : w \in Wrappings(PageSlice(ep.rows, p, size)) }
    ELSE { [ok |-> FALSE, payload |-> JOther],
           [ok |-> TRUE, payload |-> JOther],
           [ok |-> TRUE, payload |-> JDict([total |-> JOther])] }
         \cup { [ok |-> TRUE, payload |-> w] :
                  w \in UNION { Wrappings(r) : r \in SeqsUpTo({"a"}, size + 1) } }

InitPages ==
    /\ endpoint \in { [kind |-> "fixed", rows |-> r] : r \in SeqsUpTo(RowVals, MaxRows) }
                    \cup { [kind |-> "arbitrary", rows |-> <<>>] }
    /\ page_size \in 1..MaxPageSize
    /\ max_pages \in 0..MaxPages
    /\ page = 0
    /\ all_rows = <<>>
    /\ requested = <<>>
    /\ page_lens = <<>>
    /\ pg_pc = "loop"
    /\ GridIdle /\ AuthIdle /\ ActiveIdle /\ LaterIdle

\* one iteration of the loop of get_prices_all: get_prices_page, then the tests
FetchPage ==
    /\ pg_pc = "loop"
    /\ LoopGuard(page, max_pages)
    /\ requested' = Append(requested, page)
    /\ \E r \in Responses(endpoint, page, page_size) :
          IF ~r.ok
          THEN \* get_prices_page raises RuntimeError
               /\ pg_pc' = "raised"
               /\ UNCHANGED <<page, all_rows, page_lens>>
          ELSE LET rows == extract_rows(r.payload)
               IN  /\ page_lens' = Append(page_lens, Len(rows))
                   /\ IF rows = <<>>
                      THEN /\ pg_pc' = "done"
                           /\ UNCHANGED <<page, all_rows>>
                      ELSE /\ all_rows' = all_rows \o rows
                           /\ IF LastPage(rows, page_size)
                              THEN pg_pc' = "done" /\ UNCHANGED page
                              ELSE pg_pc' = "loop" /\ page' = page + 1
    /\ UNCHANGED <<endpoint, page_size, max_pages>>
    /\ UNCHANGED <<grid_vars, auth_vars, active_vars, later_vars>>

\* leaving the loop at the ceiling treated as a failure of the retrieval
CeilingOutcome_raises == "raised"

\* line 190: after the for loop the function goes on to `return all_rows`
CeilingOutcome == "done"

\* the loop ends because page reached max_pages: return all_rows
PageCeiling ==
    /\ pg_pc = "loop"
    /\ ~LoopGuard(page, max_pages)
    /\ pg_pc' = CeilingOutcome
    /\ UNCHANGED <<endpoint, page_size, max_pages, page, all_rows, requested, page_lens>>
    /\ UNCHANGED <<grid_vars, auth_vars, active_vars, later_vars>>

NextPages == FetchPage \/ PageCeiling

SpecPages == InitPages /\ [][NextPages]_vars

\* the loop is sequential code and every request has a timeout: an enabled
\* step is eventually taken
FairPages == SpecPages /\ WF_vars(NextPages)

(***************************************************************************)
(* The active flag: the catalog step fills duration_map, the price step    *)
(* reads it.  A duration attribute is '4h' or '<N>d'.                      *)
(***************************************************************************)
SeasonStart == date(2025, 12, 13)
SeasonEnd   == date(2026, 4, 12)

\* lines 315-318
duration_int(code) == IF code = [n |-> 4, unit |-> "h"] THEN 1 ELSE code.n

\* days_between with the closure week running up to and including 2025-12-19
days_between_closed_on_reopening(d) ==
    IF d = date(2025, 12, 13) THEN 2
    ELSE IF d = date(2025, 12, 14) THEN 1
    ELSE IF date(2025, 12, 14) < d /\ d <= date(2025, 12, 19) THEN 0
    ELSE (SeasonEnd - d) + 1

\* days_between counted from the start of the range instead of to its end
days_between_rising(d) ==
    IF d = date(2025, 12, 13) THEN 2
    ELSE IF d = date(2025, 12, 14) THEN 1
    ELSE IF date(2025, 12, 14) < d /\ d < date(2025, 12, 19) THEN 0
    ELSE (d - SeasonStart) + 1

\* lines 353-361
days_between(d) ==
    IF d = date(2025, 12, 13) THEN 2
    ELSE IF d = date(2025, 12, 14) THEN 1
    ELSE IF date(2025, 12, 14) < d /\ d < date(2025, 12, 19) THEN 0
    ELSE (SeasonEnd - d) + 1

\* lines 350-367
is_active(iso, duration) == days_between(strptime(iso)) >= duration

MaxDuration == 13   \* durations '1d' .. '<MaxDuration>d'

DurationCodes == { [n |-> 4, unit |-> "h"] } \cup { [n |-> k, unit |-> "d"] : k \in 1..MaxDuration }

\* the product whose rows are followed
ProductId == Min(Pids)

InitActive ==
    /\ duration_code \in DurationCodes
    /\ duration_map = <<>>
    /\ valid_from \in { isoformat(d) : d \in SeasonStart..SeasonEnd }
    /\ active = FALSE
    /\ act_pc = "catalog"
    /\ GridIdle /\ AuthIdle /\ PagesIdle /\ LaterIdle

\* make_pricenow_products_df: duration_map[product_id] = duration_int
CatalogStep ==
    /\ act_pc = "catalog"
    /\ duration_map' = (ProductId :> duration_int(duration_code))
    /\ act_pc' = "prices"
    /\ UNCHANGED <<duration_code, valid_from, active>>
    /\ UNCHANGED <<grid_vars, auth_vars, pages_vars, later_vars>>

\* make_pricenow_prices_df: the active value of one dense row
ComputeActive ==
    /\ act_pc = "prices"
    /\ active' = is_active(valid_from, duration_map[ProductId])
    /\ act_pc' = "done"
    /\ UNCHANGED <<duration_code, duration_map, valid_from>>
    /\ UNCHANGED <<grid_vars, auth_vars, pages_vars, later_vars>>

\* the loop of lines 343-367 goes on to the product's next dense row, which
\* is the next calendar day (forward_fill_daily_grid emits a product's days
\* in order)
NextRow ==
    /\ act_pc \in {"done", "walk"}
    /\ strptime(valid_from) < SeasonEnd
    /\ valid_from' = isoformat(strptime(valid_from) + 1)
    /\ active' = is_active(valid_from', duration_map[ProductId])
    /\ act_pc' = "walk"
    /\ UNCHANGED <<duration_code, duration_map>>
    /\ UNCHANGED <<grid_vars, auth_vars, pages_vars, later_vars>>

NextActive == CatalogStep \/ ComputeActive \/ NextRow

SpecActive == InitActive /\ [][NextActive]_vars

(***************************************************************************)
(* Inputs of the grid specification.                                       *)
(***************************************************************************)
MaxEvents == 2      \* longest input event sequence
MaxDay    == 2      \* the dates used are WindowStart .. WindowStart + MaxDay

\* the window straddles a month and year boundary
WindowStart == date(2025, 12, 30)
Days        == WindowStart .. (WindowStart + MaxDay)

FullRows ==
    { [productDefinitionId |-> p, validAt |-> isoformat(d), price |-> c] :
        p \in Pids, d \in Days, c \in Prices }

\* one row for each field that can be None
PartialRows ==
    { [validAt |-> isoformat(WindowStart), price |-> 10],
      [productDefinitionId |-> 1, price |-> 10],
      [productDefinitionId |-> 1, validAt |-> isoformat(WindowStart)] }

InputRows == FullRows \cup PartialRows

InitGrid ==
    /\ change_rows \in UNION { [1..n -> InputRows] : n \in 0..MaxEvents }
    /\ season_start \in Days
    /\ season_end \in Days
    /\ season_start <= season_end
    /\ dense = <<>>
    /\ ff_pc = "input"
    /\ reordered = FALSE
    /\ AuthIdle /\ PagesIdle /\ ActiveIdle /\ LaterIdle

\* dense_rows = forward_fill_daily_grid(change_rows, season_start, season_end)
ForwardFill ==
    /\ ff_pc = "input"
    /\ dense' = forward_fill_daily_grid(change_rows, season_start, season_end)
    /\ ff_pc' = "done"
    /\ UNCHANGED <<change_rows, season_start, season_end, reordered>>
    /\ UNCHANGED <<auth_vars, pages_vars, active_vars, later_vars>>

Swap(s, i) == [k \in 1..Len(s) |-> IF k = i THEN s[i + 1]
                                    ELSE IF k = i + 1 THEN s[i] ELSE s[k]]

\* the same events arrive in another order (two neighbours exchanged) and the
\* grid is built again
ForwardFillReordered ==
    /\ ff_pc = "done"
    /\ \E i \in 1..(Len(change_rows) - 1) :
          /\ change_rows' = Swap(change_rows, i)
          /\ dense' = forward_fill_daily_grid(change_rows', season_start, season_end)
    /\ reordered' = TRUE
    /\ UNCHANGED <<season_start, season_end, ff_pc>>
    /\ UNCHANGED <<auth_vars, pages_vars, active_vars, later_vars>>

NextGrid == ForwardFill \/ ForwardFillReordered

SpecGrid == InitGrid /\ [][NextGrid]_vars

(***************************************************************************)
(* The writer: _df_to_records, upsert_df and the two table upserts.  A     *)
(* DataFrame is a sequence of rows, a row a record of cells; a cell is     *)
(* None, NaN or <<v>> for a value v.                                        *)
(***************************************************************************)
NaN == <<None, None>>

\* pd.notnull, the negation of isnull
notnull(cell) == cell \notin {None, NaN}

\* lines 89-95: NaN becomes None, an empty frame gives []
df_to_records(df) ==
    [j \in 1..Len(df) |->
        [c \in DOMAIN df[j] |-> IF notnull(df[j][c]) THEN df[j][c] ELSE None]]

\* line 107: range(0, len(records), chunk_size) has a value at i
RangeHasNext(i, n) == i < n

\* a range that leaves one row out between two chunks
NextStart_skip(i, c) == i + c + 1

\* line 107: the step of the range
NextStart(i, c) == i + c

\* a slice that runs one row into the next chunk
Chunk_overlap(records, i, c) ==
    SubSeq(records, i + 1, Min({i + c + 1, Len(records)}))

\* line 108: records[i:i+chunk_size]
Chunk(records, i, c) == SubSeq(records, i + 1, Min({i + c, Len(records)}))

\* a failed chunk that is skipped and the loop goes on
OnChunkError_swallow == "continue"

\* lines 109-112: nothing catches what execute() raises
OnChunkError == "propagate"

\* the conflict key of a row
KeyOf(row, cols) == [c \in cols |-> row[c]]

\* lines 109-112: what .upsert(chunk, on_conflict=...).execute() does to the
\* rows of the table: a stored row with the key of a chunk row is replaced,
\* every other chunk row is inserted, every other stored row stays
StoreUpsert(stored, chunk, cols) ==
    { r \in stored :
        \A j \in 1..Len(chunk) : KeyOf(chunk[j], cols) # KeyOf(r, cols) }
    \cup { chunk[j] : j \in 1..Len(chunk) }

ChunkSizeDefault == 1000

\* lines 252-258 and 275-281: the arguments the table upserts pass to
\* upsert_df; a direct call brings its own
UpsertArgs(job) ==
    IF job.fn = "upsert_pricenow_prices"
    THEN [table |-> "pricenow_prices", on_conflict |-> {"product_id", "valid_from"},
          chunk_size |-> ChunkSizeDefault]
    ELSE IF job.fn = "upsert_pricenow_products"
    THEN [table |-> "pricenow_products", on_conflict |-> {"product_id"},
          chunk_size |-> ChunkSizeDefault]
    ELSE [table |-> job.table, on_conflict |-> job.on_conflict,
          chunk_size |-> job.chunk_size]

\* a price upsert that tests product_id only
NullCheckedColumns_product_only(fn) ==
    IF fn = "upsert_df" THEN {} ELSE {"product_id"}

\* lines 249 and 271: the columns tested with isnull().any()
NullCheckedColumns(fn) ==
    IF fn = "upsert_pricenow_prices" THEN {"product_id", "valid_from"}
    ELSE IF fn = "upsert_pricenow_products" THEN {"product_id"}
    ELSE {}

\* line 268: pd.to_datetime(...).dt.strftime("%Y-%m-%d") on one cell
to_iso_date(cell) ==
    IF notnull(cell) THEN <<isoformat(strptime(cell[1]))>> ELSE NaN

\* the frame the function works on after line 268
Normalised(fn, df) ==
    IF fn = "upsert_pricenow_prices"
    THEN [j \in 1..Len(df) |-> [df[j] EXCEPT !.valid_from = to_iso_date(@)]]
    ELSE df

\* df[col].isnull().any() for one of the columns
HasNull(df, cols) ==
    \E j \in 1..Len(df) : \E c \in cols : ~notnull(df[j][c])

MaxKey   == 3    \* product ids 1..MaxKey in a direct call of upsert_df
MaxChunk == 2    \* chunk_size ranges over 1..MaxChunk in a direct call
MaxFrame == 2    \* longest DataFrame handed to a table upsert

Keys == 1..MaxKey

\* the day the price rows of the writer are for
WriterDay == isoformat(SeasonEnd)

\* no two rows of the frame have the same non-null key
DistinctKeys(df, cols) ==
    \A i, j \in 1..Len(df) :
        (i # j /\ ~HasNull(<<df[i]>>, cols)) => KeyOf(df[i], cols) # KeyOf(df[j], cols)

\* frames for a direct call of upsert_df: keys set and distinct
DirectFrames ==
    { df \in SeqsUpTo({ [product_id |-> <<k>>, category |-> v] :
                          k \in Keys, v \in {<<"new">>, NaN} }, MaxKey) :
        DistinctKeys(df, {"product_id"}) }

\* frames for upsert_pricenow_products: product_id may be missing
ProductFrames ==
    { df \in SeqsUpTo({ [product_id |-> k, category |-> <<"new">>] :
                          k \in { <<q>> : q \in Pids } \cup {None} }, MaxFrame) :
        DistinctKeys(df, {"product_id"}) }

\* frames for upsert_pricenow_prices: product_id or valid_from may be missing
PriceFrames ==
    { df \in SeqsUpTo({ [product_id |-> k, valid_from |-> d, price |-> <<Min(Prices)>>] :
                          k \in {<<ProductId>>, None}, d \in {<<WriterDay>>, NaN} },
                      MaxFrame) :
        DistinctKeys(df, {"product_id", "valid_from"}) }

\* what the tables may hold before the run
ProductStores(ids) ==
    { { [product_id |-> <<k>>, category |-> <<"old">>] : k \in 1..n } : n \in {0} \cup ids }

PriceStores ==
    { {}, { [product_id |-> <<ProductId>>, valid_from |-> <<WriterDay>>,
             price |-> <<Max(Prices)>>] } }

\* a direct call of upsert_df, or the two table upserts in the order of
\* lines 448-452
Plans ==
    { << [fn |-> "upsert_df", df |-> df, table |-> "pricenow_products",
          on_conflict |-> {"product_id"}, chunk_size |-> c] >> :
        df \in DirectFrames, c \in 1..MaxChunk }
    \cup { << [fn |-> "upsert_pricenow_prices", df |-> pr],
              [fn |-> "upsert_pricenow_products", df |-> pd] >> :
             pr \in PriceFrames, pd \in ProductFrames }

InitWriter ==
    /\ w_plan \in Plans
    /\ w_store \in { [pricenow_prices |-> a, pricenow_products |-> b] :
                       a \in PriceStores,
                       b \in ProductStores(IF w_plan[1].fn = "upsert_df" THEN Keys ELSE Pids) }
    /\ w_store0 = w_store
    /\ w_store1 = w_store
    /\ w_job = 1
    /\ w_records = <<>>
    /\ w_i = 0
    /\ w_calls = <<>>
    /\ w_pc = "call"
    /\ w_run = 1
    /\ GridIdle /\ AuthIdle /\ PagesIdle /\ ActiveIdle /\ MainIdle /\ RaceIdle

\* where the run stands once call number j of the plan has returned
AfterJob(j) == IF j < Len(w_plan) THEN "call" ELSE "done"

\* the call of w_plan[w_job] up to the first chunk: the table upsert's tests
\* (lines 245-251, 263-273), then lines 99-105 of upsert_df
EnterUpsert ==
    /\ w_pc = "call"
    /\ LET job == w_plan[w_job]
           df == Normalised(job.fn, job.df)
           records == df_to_records(df)
       IN  IF records = <<>>
           THEN /\ w_job' = w_job + 1
                /\ w_pc' = AfterJob(w_job)
                /\ UNCHANGED <<w_records, w_i>>
           ELSE IF HasNull(df, NullCheckedColumns(job.fn))
           THEN /\ w_pc' = "raised"
                /\ UNCHANGED <<w_job, w_records, w_i>>
           ELSE /\ w_records' = records
                /\ w_i' = 0
                /\ w_pc' = "loop"
                /\ UNCHANGED w_job
    /\ UNCHANGED <<w_plan, w_store, w_store0, w_store1, w_calls, w_run>>
    /\ UNCHANGED <<grid_vars, auth_vars, pages_vars, active_vars, main_vars, race_vars>>

\* one iteration of the loop of lines 107-112; execute() succeeds or raises
SendChunk ==
    /\ w_pc = "loop"
    /\ RangeHasNext(w_i, Len(w_records))
    /\ LET args == UpsertArgs(w_plan[w_job])
           chunk == Chunk(w_records, w_i, args.chunk_size)
       IN  \E ok \in BOOLEAN :
             /\ w_calls' = Append(w_calls, [table |-> args.table, chunk |-> chunk, ok |-> ok])
             /\ w_store' = IF ok
                           THEN [w_store EXCEPT
                                   ![args.table] = StoreUpsert(@, chunk, args.on_conflict)]
                           ELSE w_store
             /\ IF ok \/ OnChunkError = "continue"
                THEN /\ w_i' = NextStart(w_i, args.chunk_size)
                     /\ IF RangeHasNext(w_i', Len(w_records))
                        THEN UNCHANGED <<w_job, w_pc>>
                        ELSE w_job' = w_job + 1 /\ w_pc' = AfterJob(w_job)
                ELSE /\ w_pc' = "raised"
                     /\ UNCHANGED <<w_job, w_i>>
    /\ UNCHANGED <<w_plan, w_records, w_store0, w_store1, w_run>>
    /\ UNCHANGED <<grid_vars, auth_vars, pages_vars, active_vars, main_vars, race_vars>>

\* the same calls with the same frames are made once more
RunAgain ==
    /\ w_pc = "done"
    /\ w_run = 1
    /\ w_run' = 2
    /\ w_store1' = w_store
    /\ w_job' = 1
    /\ w_records' = <<>>
    /\ w_i' = 0
    /\ w_calls' = <<>>
    /\ w_pc' = "call"
    /\ UNCHANGED <<w_plan, w_store, w_store0>>
    /\ UNCHANGED <<grid_vars, auth_vars, pages_vars, active_vars, main_vars, race_vars>>

NextWriter == EnterUpsert \/ SendChunk \/ RunAgain

SpecWriter == InitWriter /\ [][NextWriter]_vars

(***************************************************************************)
(* One run of __main__: the catalog step, the price step, then the two     *)
(* table upserts.  A request is taken with the status it ends with, after  *)
(* the retry of _authed_get / _authed_get_pricing if there was one.        *)
(***************************************************************************)
\* lines 123, 147, 174: resp.raise_for_status() raises, and resp.ok is
\* False, exactly for the statuses 400..599
ResponseOk(status) == ~(400 <= status /\ status < 600)

\* the entry written only in the branch for durations given in days
RecordsDuration_days_only(p_d) == p_d.duration.unit = "d"

\* line 320 is reached for every product definition of the loop
RecordsDuration(p_d) == TRUE

\* duration_map[k] = v
MapSet(f, k, v) == [x \in DOMAIN f \cup {k} |-> IF x = k THEN v ELSE f[x]]

RECURSIVE CatalogLoop(_, _)
\* lines 298-324: the loop over the product definitions
CatalogLoop(defs, acc) ==
    IF defs = <<>> THEN acc
    ELSE LET p_d == Head(defs)
             set == IF RecordsDuration(p_d)
                    THEN [acc EXCEPT !.map = MapSet(@, p_d.id, duration_int(p_d.duration)),
                                     !.log = Append(@, <<"set", p_d.id>>)]
                    ELSE acc
             row == [product_id |-> <<p_d.id>>, age |-> <<p_d.age>>,
                     duration |-> <<p_d.duration>>]
         IN  CatalogLoop(Tail(defs),
                 IF p_d.age # "small_child"
                 THEN [set EXCEPT !.df = Append(@, row), !.ids = Append(@, p_d.id)]
                 ELSE set)

RECURSIVE PriceLoop(_, _, _)
\* lines 343-369: the loop over the dense rows; duration_map.get(pid) gives
\* None for a missing id and the comparison of line 363 then raises TypeError
PriceLoop(rows, map, acc) ==
    IF rows = <<>> \/ ~acc.ok THEN acc
    ELSE LET r == Head(rows)
             pid == r.productDefinitionId
             found == pid \in DOMAIN map
             got == [acc EXCEPT !.log = Append(@, <<"get", pid, found>>)]
         IN  PriceLoop(Tail(rows), map,
                 IF found
                 THEN [got EXCEPT !.df = Append(@,
                         [product_id |-> <<pid>>, valid_from |-> <<r.valid_from>>,
                          price |-> <<r.price>>,
                          active |-> <<is_active(r.valid_from, map[pid])>>])]
                 ELSE [got EXCEPT !.ok = FALSE])

MainPageSize == 1    \* page_size of line 337, scaled down from 1000
MainMaxPages == 2    \* max_pages of line 180, scaled down from 1000

MainStatuses == {200, 300, 401, 500}

\* the product definitions a catalog response may list
ProductDefs ==
    { [id |-> q, age |-> a, duration |-> c] :
        q \in Pids, a \in {"adult", "small_child"},
        c \in { [n |-> 4, unit |-> "h"], [n |-> 2, unit |-> "d"] } }

\* the bodies of a catalog response: one that json() or data["data"] fails
\* on, or a list of product definitions with different ids
CatalogBodies ==
    { [parsed |-> FALSE, defs |-> <<>>] }
    \cup { [parsed |-> TRUE, defs |-> d] :
             d \in { x \in SeqsUpTo(ProductDefs, Cardinality(Pids)) :
                       \A i, j \in 1..Len(x) : i # j => x[i].id # x[j].id } }

\* the bodies of a pricing response: one json() fails on, a payload without
\* a list, or a list of at most page_size change rows of the last day
PageBodies ==
    { [parsed |-> FALSE, payload |-> JOther], [parsed |-> TRUE, payload |-> JOther] }
    \cup { [parsed |-> TRUE, payload |-> JList(rows)] :
             rows \in SeqsUpTo({ [productDefinitionId |-> q, validAt |-> isoformat(SeasonEnd),
                                  price |-> Min(Prices)] : q \in Pids }, MainPageSize) }

\* every change row of PageBodies is of the last day of the season, so no
\* product has a price, and the grid no row, on a day before it; the walk
\* over the days of lines 221-237 is started the day before the last one
\* instead of on SeasonStart
WalkFrom == SeasonEnd - 1

InitMain ==
    /\ m_pc = "catalog"
    /\ m_products_df = <<>>
    /\ m_product_ids = <<>>
    /\ m_duration_map = <<>>
    /\ m_log = <<>>
    /\ m_page = 0
    /\ m_all_rows = <<>>
    /\ m_requests = <<>>
    /\ m_prices_df = <<>>
    /\ m_upserts = <<>>
    /\ m_store = [pricenow_prices |-> {}, pricenow_products |-> {}]
    /\ GridIdle /\ AuthIdle /\ PagesIdle /\ ActiveIdle /\ WriterIdle /\ RaceIdle

\* make_pricenow_products_df (line 435) and line 439
MakeProducts ==
    /\ m_pc = "catalog"
    /\ \E status \in MainStatuses, body \in CatalogBodies :
          /\ m_requests' = Append(m_requests, [api |-> "catalog", status |-> status])
          /\ IF ~ResponseOk(status) \/ ~body.parsed
             THEN /\ m_pc' = "raised"
                  /\ UNCHANGED <<m_products_df, m_product_ids, m_duration_map, m_log>>
             ELSE LET out == CatalogLoop(body.defs,
                                [map |-> m_duration_map, log |-> m_log,
                                 df |-> <<>>, ids |-> <<>>])
                  IN  /\ m_duration_map' = out.map
                      /\ m_log' = out.log
                      /\ m_products_df' = out.df
                      /\ m_product_ids' = out.ids
                      /\ m_pc' = "prices"
    /\ UNCHANGED <<m_page, m_all_rows, m_prices_df, m_upserts, m_store>>
    /\ UNCHANGED <<grid_vars, auth_vars, pages_vars, active_vars, writer_vars, race_vars>>

\* one iteration of the loop of get_prices_all, called at line 337; an
\* exception ends the run and all_rows is lost with it
FetchPricePage ==
    /\ m_pc = "prices"
    /\ LoopGuard(m_page, MainMaxPages)
    /\ \E status \in MainStatuses, body \in PageBodies :
          /\ m_requests' = Append(m_requests, [api |-> "pricing", status |-> status])
          /\ IF ~ResponseOk(status) \/ ~body.parsed
             THEN /\ m_pc' = "raised"
                  /\ m_all_rows' = <<>>
                  /\ UNCHANGED m_page
             ELSE LET rows == extract_rows(body.payload)
                  IN  IF rows = <<>>
                      THEN m_pc' = "frame" /\ UNCHANGED <<m_page, m_all_rows>>
                      ELSE /\ m_all_rows' = m_all_rows \o rows
                           /\ IF LastPage(rows, MainPageSize)
                              THEN m_pc' = "frame" /\ UNCHANGED m_page
                              ELSE m_pc' = "prices" /\ m_page' = m_page + 1
    /\ UNCHANGED <<m_products_df, m_product_ids, m_duration_map, m_log,
                   m_prices_df, m_upserts, m_store>>
    /\ UNCHANGED <<grid_vars, auth_vars, pages_vars, active_vars, writer_vars, race_vars>>

\* the loop of get_prices_all ends at max_pages
PriceCeiling ==
    /\ m_pc = "prices"
    /\ ~LoopGuard(m_page, MainMaxPages)
    /\ m_pc' = IF CeilingOutcome = "done" THEN "frame" ELSE "raised"
    /\ UNCHANGED <<m_products_df, m_product_ids, m_duration_map, m_log, m_page,
                   m_all_rows, m_requests, m_prices_df, m_upserts, m_store>>
    /\ UNCHANGED <<grid_vars, auth_vars, pages_vars, active_vars, writer_vars, race_vars>>

\* the rest of make_pricenow_prices_df: lines 340-376
MakePrices ==
    /\ m_pc = "frame"
    /\ LET dense_rows == forward_fill_daily_grid(m_all_rows, WalkFrom, SeasonEnd)
           out == PriceLoop(dense_rows, m_duration_map,
                            [df |-> <<>>, log |-> m_log, ok |-> TRUE])
       IN  /\ m_log' = out.log
           /\ IF out.ok
              THEN m_prices_df' = out.df /\ m_pc' = "write_prices"
              ELSE m_pc' = "raised" /\ UNCHANGED m_prices_df
    /\ UNCHANGED <<m_products_df, m_product_ids, m_duration_map, m_page,
                   m_all_rows, m_requests, m_upserts, m_store>>
    /\ UNCHANGED <<grid_vars, auth_vars, pages_vars, active_vars, writer_vars, race_vars>>

\* a table upsert of __main__; its frame has at most chunk_size rows, so the
\* loop of upsert_df has one iteration
UpsertTable(fn, frame, next_pc) ==
    LET df == Normalised(fn, frame)
        records == df_to_records(df)
        args == UpsertArgs([fn |-> fn])
        chunk == Chunk(records, 0, args.chunk_size)
    IN  IF records = <<>>
        THEN m_pc' = next_pc /\ UNCHANGED <<m_upserts, m_store>>
        ELSE IF HasNull(df, NullCheckedColumns(fn))
        THEN m_pc' = "raised" /\ UNCHANGED <<m_upserts, m_store>>
        ELSE \E ok \in BOOLEAN :
               /\ m_upserts' = Append(m_upserts, [table |-> args.table, chunk |-> chunk, ok |-> ok])
               /\ m_store' = IF ok
                             THEN [m_store EXCEPT
                                     ![args.table] = StoreUpsert(@, chunk, args.on_conflict)]
                             ELSE m_store
               /\ m_pc' = IF ok \/ OnChunkError = "continue" THEN next_pc ELSE "raised"

\* line 448
WritePrices ==
    /\ m_pc = "write_prices"
    /\ UpsertTable("upsert_pricenow_prices", m_prices_df, "write_products")
    /\ UNCHANGED <<m_products_df, m_product_ids, m_duration_map, m_log, m_page,
                   m_all_rows, m_requests, m_prices_df>>
    /\ UNCHANGED <<grid_vars, auth_vars, pages_vars, active_vars, writer_vars, race_vars>>

\* line 452
WriteProducts ==
    /\ m_pc = "write_products"
    /\ UpsertTable("upsert_pricenow_products", m_products_df, "done")
    /\ UNCHANGED <<m_products_df, m_product_ids, m_duration_map, m_log, m_page,
                   m_all_rows, m_requests, m_prices_df>>
    /\ UNCHANGED <<grid_vars, auth_vars, pages_vars, active_vars, writer_vars, race_vars>>

NextMain ==
    \/ MakeProducts
    \/ FetchPricePage
    \/ PriceCeiling
    \/ MakePrices
    \/ WritePrices
    \/ WriteProducts

SpecMain == InitMain /\ [][NextMain]_vars

(***************************************************************************)
(* Two invocations of the program that share CACHE_FILE.  Each is a fresh  *)
(* process (_token = None, _token_expires_at = 0) making its first call of *)
(* _get_token; nothing locks the file between the read of line 62 and the  *)
(* write of line 55.  The invocations run within one second of the clock.  *)
(***************************************************************************)
Procs == {1, 2}

FreshMemory == [token |-> None, token_expires_at |-> 0]

InProgress(q) == r_pc[q] \in {"post", "reply"}

InitRace ==
    /\ r_pc = [q \in Procs |-> "start"]
    /\ r_mem = [q \in Procs |-> FreshMemory]
    /\ r_file \in InitialFiles
    /\ r_issued = 0
    /\ r_reply = [q \in Procs |-> NoCall]
    /\ r_saw = [q \in Procs |-> "nothing"]
    /\ r_writes = <<>>
    /\ r_exchanged = <<>>
    /\ r_overlap = FALSE
    /\ GridIdle /\ AuthIdle /\ PagesIdle /\ ActiveIdle /\ WriterIdle /\ MainIdle

\* _get_token lines 59-65: the memory test and the read of the cache file
ReadCache(q) ==
    /\ r_pc[q] = "start"
    /\ LET g == get_token_local(r_mem[q].token, r_mem[q].token_expires_at, r_file, now)
       IN  /\ r_mem' = [r_mem EXCEPT ![q] = [token |-> g.token,
                                             token_expires_at |-> g.token_expires_at]]
           /\ r_saw' = [r_saw EXCEPT ![q] = IF g.path = "exchange" THEN "invalid" ELSE "valid"]
           /\ r_pc' = [r_pc EXCEPT ![q] = IF g.path = "exchange" THEN "post" ELSE "done"]
    /\ r_overlap' = (r_overlap \/ \E o \in Procs \ {q} : InProgress(o))
    /\ UNCHANGED <<r_file, r_issued, r_reply, r_writes, r_exchanged>>
    /\ UNCHANGED <<grid_vars, auth_vars, pages_vars, active_vars, writer_vars, main_vars>>

\* _fetch_token line 48: the POST reaches the identity provider, which
\* answers it; a usable answer carries a newly issued token
PostExchange(q) ==
    /\ r_pc[q] = "post"
    /\ \E r \in IdpResponses(<<r_issued + 1>>) :
          /\ r_reply' = [r_reply EXCEPT ![q] = r]
          /\ r_exchanged' =
                IF fetch_token(r_mem[q].token, r_mem[q].token_expires_at, r_file, now, r).ok
                THEN Append(r_exchanged, <<r_issued + 1>>)
                ELSE r_exchanged
    /\ r_issued' = r_issued + 1
    /\ r_pc' = [r_pc EXCEPT ![q] = "reply"]
    /\ UNCHANGED <<r_mem, r_file, r_saw, r_writes, r_overlap>>
    /\ UNCHANGED <<grid_vars, auth_vars, pages_vars, active_vars, writer_vars, main_vars>>

\* _fetch_token lines 49-55 on the answer: raise, or set the credential and
\* write the cache file
StoreToken(q) ==
    /\ r_pc[q] = "reply"
    /\ LET f == fetch_token(r_mem[q].token, r_mem[q].token_expires_at, r_file, now, r_reply[q])
       IN  /\ r_mem' = [r_mem EXCEPT ![q] = [token |-> f.token,
                                             token_expires_at |-> f.token_expires_at]]
           /\ r_file' = f.cache_file
           /\ r_writes' = IF f.ok THEN Append(r_writes, f.token) ELSE r_writes
           /\ r_pc' = [r_pc EXCEPT ![q] = IF f.ok THEN "done" ELSE "raised"]
    /\ UNCHANGED <<r_issued, r_reply, r_saw, r_exchanged, r_overlap>>
    /\ UNCHANGED <<grid_vars, auth_vars, pages_vars, active_vars, writer_vars, main_vars>>

NextRace == \E q \in Procs : ReadCache(q) \/ PostExchange(q) \/ StoreToken(q)

SpecRace == InitRace /\ [][NextRace]_vars

(***************************************************************************)
(* Claims about the credential lifecycle and the authenticated fetch,      *)
(* checked under SpecAuth.                                                 *)
(***************************************************************************)
\* positions in this fetch's trace of the GET requests and of the exchanges
GetIdx  == { i \in 1..Len(trace) : trace[i][1] = "GET" }
ExchIdx == { i \in 1..Len(trace) : trace[i][1] = "EXCH" }


FirstStatus == trace[Min(GetIdx)][3]

FetchOver == au_pc \in {"returned", "raised"}

\* what C3 says of every fetch apart from when the second request is issued
C3_AtMostTwoAndSurfaced ==
    /\ Cardinality(GetIdx) <= 2
    /\ Cardinality(GetIdx) = 2 => /\ FirstStatus = 401
                                  /\ trace[Len(trace)][1] = "GET"
    /\ au_pc = "returned" => /\ GetIdx # {}
                             /\ resp = trace[Max(GetIdx)][3]

\* C3 as stated: at most two GET requests, the second issued if and only if the
\* first response is 401, the second response returned as is with no further
\* request or refresh.
C3_SecondRequestIffUnauthorized ==
    /\ C3_AtMostTwoAndSurfaced
    /\ (FetchOver /\ GetIdx # {} /\ FirstStatus = 401) => Cardinality(GetIdx) = 2

\* C3 amended: at most two GET requests; a second one only after a 401; after a
\* 401 the second one is issued unless a credential exchange raises first, and
\* then the fetch raises with no second request; the second response is
\* returned as is with no further request or refresh.
C3_SecondRequestIffUnauthorizedAndRefreshed ==
    /\ C3_AtMostTwoAndSurfaced
    /\ (FetchOver /\ GetIdx # {} /\ FirstStatus = 401 /\ Cardinality(GetIdx) < 2)
          => /\ au_pc = "raised"
             /\ trace[Len(trace)][1] = "EXCH"
             /\ ~trace[Len(trace)][3]

\* C3 witness: a fetch returned a second 401 to its caller.
C3_Witness ==
    /\ au_pc = "returned"
    /\ Cardinality(GetIdx) = 2
    /\ resp = 401
    /\ api = "pricing"

\* this call's disk reads and exchanges: the trace after the call's start, up
\* to the next GET request
OpsOfCall ==
    LET later == { i \in GetIdx : i > gt.at }
        last  == IF later = {} THEN Len(trace) ELSE Min(later) - 1
    IN  [i \in 1..(last - gt.at) |-> trace[gt.at + i][1]]

\* the cache file holds an entry with a token whose remaining life is > m / >= m
FileEntry(file) ==
    file.exists /\ file.json /\ "access_token" \in DOMAIN file.data
                /\ "expires_at" \in DOMAIN file.data

\* the three ways of _get_token, decided by whether the in-memory credential
\* (mem) and the cache entry (disk) count as valid
GetTokenWays(mem, disk) ==
    gt.called =>
        /\ mem => /\ gt.path = "memory"
                  /\ OpsOfCall = <<>>
                  /\ gt.ret = gt.tok
        /\ (~mem /\ disk) => /\ gt.path = "disk"
                             /\ OpsOfCall = <<"DISK">>
                             /\ gt.ret = gt.file.data.access_token
        /\ (~mem /\ ~disk) => /\ gt.path = "exchange"
                              /\ OpsOfCall \in {<<"DISK">>, <<"DISK", "EXCH">>}
        /\ (\E i \in 1..Len(OpsOfCall) : OpsOfCall[i] = "EXCH") => (~mem /\ ~disk)

\* C4 as stated: a credential counts as valid when it is valid for at least 60
\* more seconds; the in-memory one is returned without disk read or exchange,
\* else a valid cache entry is adopted without exchange, else an exchange.
C4_AtLeastMargin ==
    gt.called =>
        GetTokenWays(gt.tok # None /\ gt.exp - gt.now >= Margin,
                     FileEntry(gt.file) /\ gt.file.data.expires_at - gt.now >= Margin)

\* C4 amended: the same with "valid for more than 60 more seconds".
C4_MoreThanMargin ==
    gt.called =>
        GetTokenWays(gt.tok # None /\ gt.exp - gt.now > Margin,
                     FileEntry(gt.file) /\ gt.file.data.expires_at - gt.now > Margin)

\* C4 witness: a credential adopted from the cache file earlier is returned
\* from memory with 61 seconds left, while an exchange had been needed before.
C4_Witness ==
    /\ gt.called
    /\ gt.path = "memory"
    /\ gt.exp - gt.now = Margin + 1
    /\ au_pc \in {"get1", "get2"}

\* C5: after a first 401 the fetch performs exactly one credential exchange
\* before its retry, whatever lifetime the new credential has, and the retry
\* carries the token of that exchange.
C5_OneExchangeBeforeRetry ==
    Cardinality(GetIdx) = 2 =>
        LET between == { i \in ExchIdx : Min(GetIdx) < i /\ i < Max(GetIdx) }
        IN  /\ Cardinality(between) = 1
            /\ \A i \in between : trace[Max(GetIdx)][2] = trace[i][2]

\* C18: when the credential exchange fails (status other than 200, payload
\* without access_token, or expires_in that is not an integer), the step
\* that raises leaves _token, _token_expires_at and the cache file as they
\* were before it.
C18_FailedExchangeChangesNothing ==
    [][(issued' = issued + 1 /\ au_pc' = "raised") =>
          /\ token' = token
          /\ token_expires_at' = token_expires_at
          /\ cache_file' = cache_file]_vars

(***************************************************************************)
(* Claims about the writer, checked under SpecWriter.                      *)
(***************************************************************************)
Tables == {"pricenow_prices", "pricenow_products"}

\* the primary key of a table
PrimaryKey(tab) ==
    IF tab = "pricenow_prices" THEN {"product_id", "valid_from"} ELSE {"product_id"}

KeysIn(rows, tab) == { KeyOf(r, PrimaryKey(tab)) : r \in rows }

Range(seq) == { seq[j] : j \in 1..Len(seq) }

\* the rows call number j of the plan is given, as records
RowsOfJob(j) == df_to_records(Normalised(w_plan[j].fn, w_plan[j].df))

\* the rows the plan holds for a table
BatchFor(tab) ==
    UNION { Range(RowsOfJob(j)) : j \in { q \in 1..Len(w_plan) : UpsertArgs(w_plan[q]).table = tab } }

\* the upsert calls issued to a table, in order
CallsTo(tab) ==
    LET ToTab(x) == x.table = tab
    IN  SelectSeq(w_calls, ToTab)

RECURSIVE Flatten(_)
Flatten(calls) ==
    IF calls = <<>> THEN <<>> ELSE Head(calls).chunk \o Flatten(Tail(calls))

Ceil(n, c) == (n + c - 1) \div c

\* C11: the writer overwrites and adds, it never replaces a table: no key a
\* table held before the run ever leaves it, and after the upsert of a batch
\* the table holds exactly the keys it held before plus the keys of the batch,
\* the batch's rows as given and every other row unchanged; a second run with
\* the same rows leaves the rows, and so their count, unchanged.
C11_UpsertOverwritesAndAdds ==
    \A tab \in Tables :
        /\ KeysIn(w_store0[tab], tab) \subseteq KeysIn(w_store[tab], tab)
        /\ w_pc = "done" =>
              /\ KeysIn(w_store[tab], tab)
                    = KeysIn(w_store0[tab], tab) \cup KeysIn(BatchFor(tab), tab)
              /\ BatchFor(tab) \subseteq w_store[tab]
              /\ \A r \in w_store0[tab] :
                    KeyOf(r, PrimaryKey(tab)) \notin KeysIn(BatchFor(tab), tab)
                        => r \in w_store[tab]
              /\ Cardinality(w_store[tab]) = Cardinality(KeysIn(w_store[tab], tab))
              /\ w_run = 2 =>
                    /\ w_store[tab] = w_store1[tab]
                    /\ Cardinality(w_store[tab]) = Cardinality(w_store1[tab])

\* C11 witness: a table holding products 1 and 2 was given rows for products
\* 3 and 2 in chunks of one, twice: product 1 kept its old row, product 2 was
\* overwritten, product 3 was added, and the second run changed nothing.
C11_Witness ==
    /\ w_pc = "done"
    /\ w_run = 2
    /\ w_plan[1].fn = "upsert_df"
    /\ w_plan[1].chunk_size = 1
    /\ Len(w_plan[1].df) = 2
    /\ w_plan[1].df[1].product_id = <<3>>
    /\ w_plan[1].df[2].product_id = <<2>>
    /\ KeysIn(w_store0.pricenow_products, "pricenow_products")
          = { [product_id |-> <<1>>], [product_id |-> <<2>>] }
    /\ [product_id |-> <<1>>, category |-> <<"old">>] \in w_store.pricenow_products
    /\ [product_id |-> <<2>>, category |-> <<"old">>] \notin w_store.pricenow_products
    /\ Cardinality(w_store.pricenow_products) = 3
    /\ w_store = w_store1

\* C12: for n rows and chunk size c a completed upsert_df has issued exactly
\* ceil(n / c) upsert calls, each with at least one and at most c rows; the
\* chunks, joined in call order, are the rows in their original order, so
\* every row is in exactly one chunk; for no rows no call is issued.
C12_ChunksPartitionTheRows ==
    w_pc = "done" =>
        \A j \in 1..Len(w_plan) :
            LET args == UpsertArgs(w_plan[j])
                calls == CallsTo(args.table)
            IN  /\ Len(calls) = Ceil(Len(RowsOfJob(j)), args.chunk_size)
                /\ \A q \in 1..Len(calls) :
                      /\ Len(calls[q].chunk) >= 1
                      /\ Len(calls[q].chunk) <= args.chunk_size
                /\ Flatten(calls) = RowsOfJob(j)
                /\ w_plan[j].df = <<>> => calls = <<>>

\* C12 witness: three rows at chunk size two went out as a chunk of two and a
\* chunk of one.
C12_Witness ==
    /\ w_pc = "done"
    /\ w_plan[1].fn = "upsert_df"
    /\ w_plan[1].chunk_size = 2
    /\ Len(w_plan[1].df) = 3
    /\ Len(w_calls) = 2
    /\ Len(w_calls[1].chunk) = 2
    /\ Len(w_calls[2].chunk) = 1

\* C13: when a catalog frame has a row with null product_id, or a price frame
\* a row with null product_id or null valid_from, the table upsert ends with
\* an error and issues no upsert call for its table.
C13_NullKeyStopsBeforeAnyWrite ==
    \A j \in 1..Len(w_plan) :
        (/\ w_plan[j].fn # "upsert_df"
         /\ HasNull(w_plan[j].df, PrimaryKey(UpsertArgs(w_plan[j]).table)))
            => /\ CallsTo(UpsertArgs(w_plan[j]).table) = <<>>
               /\ w_store[UpsertArgs(w_plan[j]).table] = w_store0[UpsertArgs(w_plan[j]).table]
               /\ w_job <= j
               /\ (w_job = j /\ w_pc # "call") => w_pc = "raised"

\* C13 witness: a price frame whose second row has a product id but no
\* valid_from was refused: the run stands at the price upsert, raised, with
\* no upsert call made.
C13_Witness ==
    /\ w_pc = "raised"
    /\ w_job = 1
    /\ w_plan[1].fn = "upsert_pricenow_prices"
    /\ Len(w_plan[1].df) = 2
    /\ ~HasNull(<<w_plan[1].df[1]>>, {"product_id", "valid_from"})
    /\ w_plan[1].df[2].product_id = <<ProductId>>
    /\ w_plan[1].df[2].valid_from = NaN
    /\ w_calls = <<>>
    /\ w_store = w_store0

\* the call of the plan that writes a table
JobOf(tab) == CHOOSE j \in 1..Len(w_plan) : UpsertArgs(w_plan[j]).table = tab

\* the table as the run found it
StoreAtStart(tab) == IF w_run = 1 THEN w_store0[tab] ELSE w_store1[tab]

\* a table after the chunks of the given calls were stored one after another
RECURSIVE StoredAfter(_, _, _)
StoredAfter(stored, calls, cols) ==
    IF calls = <<>> THEN stored
    ELSE StoredAfter(StoreUpsert(stored, Head(calls).chunk, cols), Tail(calls), cols)

\* C17: the writes are not one transaction.  Chunks go out one at a time in
\* row order; an upsert call that fails is the last call of the run and the
\* run ends raised, the table holding what the chunks before the failed one
\* made of it.  The calls to the price table all come before the calls to the
\* catalog table, so when a catalog write fails every price row of the run is
\* stored.
C17_FailedChunkKeepsEarlierChunks ==
    /\ \A k \in 1..Len(w_calls) :
          ~w_calls[k].ok =>
              LET tab == w_calls[k].table
                  before == SubSeq(CallsTo(tab), 1, Len(CallsTo(tab)) - 1)
              IN  /\ k = Len(w_calls)
                  /\ w_pc = "raised"
                  /\ ~ENABLED NextWriter
                  /\ w_store[tab] = StoredAfter(StoreAtStart(tab), before, PrimaryKey(tab))
                  /\ \A q \in 1..Len(before) : Range(before[q].chunk) \subseteq w_store[tab]
                  /\ (tab = "pricenow_products" /\ Len(w_plan) = 2)
                        => Range(RowsOfJob(1)) \subseteq w_store.pricenow_prices
    /\ \A tab \in Tables :
          CallsTo(tab) # <<>> =>
              Flatten(CallsTo(tab))
                 = SubSeq(RowsOfJob(JobOf(tab)), 1, Len(Flatten(CallsTo(tab))))
    /\ \A k, q \in 1..Len(w_calls) :
          (k < q /\ w_calls[k].table = "pricenow_products")
             => w_calls[q].table # "pricenow_prices"

\* C17 witness: of three rows sent in chunks of one the second chunk failed:
\* the first row is stored, the second and third are not, and two calls were
\* made.
C17_Witness ==
    /\ w_pc = "raised"
    /\ w_run = 1
    /\ w_plan[1].fn = "upsert_df"
    /\ w_plan[1].chunk_size = 1
    /\ Len(w_records) = 3
    /\ Len(w_calls) = 2
    /\ w_calls[1].ok /\ ~w_calls[2].ok
    /\ w_records[1] \in w_store.pricenow_products
    /\ w_records[2] \notin w_store.pricenow_products
    /\ w_records[3] \notin w_store.pricenow_products

(***************************************************************************)
(* Claims about a run of __main__, checked under SpecMain.                 *)
(***************************************************************************)
\* C15: the catalog step is complete before the price step begins: no
\* catalog request follows a pricing request and no write of duration_map
\* follows a read of it; every product id the price step requests has an
\* entry in duration_map, and every read for such an id finds it.
C15_CatalogBeforePrices ==
    /\ \A i, j \in 1..Len(m_log) :
          (i < j /\ m_log[i][1] = "get") => m_log[j][1] # "set"
    /\ \A i, j \in 1..Len(m_requests) :
          (i < j /\ m_requests[i].api = "pricing") => m_requests[j].api # "catalog"
    /\ (\E i \in 1..Len(m_requests) : m_requests[i].api = "pricing")
          => m_pc # "catalog"
    /\ Range(m_product_ids) \subseteq DOMAIN m_duration_map
    /\ \A i \in 1..Len(m_log) :
          (m_log[i][1] = "get" /\ m_log[i][2] \in Range(m_product_ids)) => m_log[i][3]

\* C15 witness: the catalog listed a four-hour adult ticket and a
\* small-child ticket; both durations were recorded, only the first id was
\* requested, and its rows got their active value from the recorded entry.
C15_Witness ==
    /\ m_pc = "write_prices"
    /\ Len(m_product_ids) = 1
    /\ Cardinality(DOMAIN m_duration_map) = 2
    /\ m_duration_map[m_product_ids[1]] = 1
    /\ m_prices_df # <<>>
    /\ m_log[Len(m_log)] = <<"get", m_product_ids[1], TRUE>>

\* C16: no upsert is issued before the catalog retrieval, the complete price
\* retrieval and the construction of the price frame have succeeded; and
\* when a catalog or pricing request ends with a status outside 200..299 the
\* run stands aborted, with the rows of earlier pages gone, no upsert issued
\* and no row written.
C16_NonSuccessAbortsBeforeAnyWrite ==
    /\ m_upserts # <<>> => m_pc \in {"write_products", "done", "raised"}
    /\ \A i \in 1..Len(m_requests) :
          (m_requests[i].status < 200 \/ m_requests[i].status > 299)
             => /\ m_pc = "raised"
                /\ m_all_rows = <<>>
                /\ m_upserts = <<>>
                /\ \A tab \in Tables : m_store[tab] = {}

(***************************************************************************)
(* Claim about the shared cache file, checked under SpecRace.              *)
(***************************************************************************)
\* the token the cache file holds, None when it holds none
TokenInFile == IF r_file.exists /\ r_file.json
               THEN DictGet(r_file.data, "access_token", None) ELSE None

\* C19: the cache file is read and written without a lock.  Whatever the
\* interleaving, once a token was written the file holds the token written
\* last and no other; and while the invocations have run one after the other
\* the file holds, whenever no exchange is under way, the token of the most
\* recent successful exchange.  (That two concurrent invocations can both
\* find the cache invalid and both exchange is the state of C19_Witness.)
C19_FileHoldsLastWrite ==
    /\ r_writes # <<>> => TokenInFile = r_writes[Len(r_writes)]
    /\ (/\ ~r_overlap
        /\ \A q \in Procs : ~InProgress(q)
        /\ r_exchanged # <<>>) => TokenInFile = r_exchanged[Len(r_exchanged)]

\* C19 witness: both invocations read the cache as invalid while the other
\* was under way, each made its own exchange, and the file ends with the
\* token written last, which is the one of the earlier exchange: the token
\* of the most recent exchange is lost.
C19_Witness ==
    /\ r_overlap
    /\ \A q \in Procs : r_saw[q] = "invalid" /\ r_pc[q] = "done"
    /\ Len(r_exchanged) = 2
    /\ Len(r_writes) = 2
    /\ TokenInFile = r_writes[2]
    /\ TokenInFile # r_exchanged[2]
    /\ r_mem[1].token # r_mem[2].token

(***************************************************************************)
(* Claims about get_prices_all, checked under SpecPages and FairPages.     *)
(***************************************************************************)
\* C6: from an endpoint that serves a fixed list of N rows in pages, with
\* N <= page_size * max_pages, get_prices_all returns exactly the N rows, in
\* order and with duplicates kept, the pages being the consecutive slices.
C6_ReturnsAllRowsInOrder ==
    (/\ pg_pc = "done"
     /\ endpoint.kind = "fixed"
     /\ Len(endpoint.rows) <= page_size * max_pages)
        => /\ all_rows = endpoint.rows
           /\ \A i \in 1..Len(page_lens) :
                 page_lens[i] = Len(PageSlice(endpoint.rows, i - 1, page_size))

\* C6 witness: five rows with duplicates at page size two came back as pages of
\* 2, 2 and 1 rows and the retrieval ended after the short page.
C6_Witness ==
    /\ pg_pc = "done"
    /\ endpoint.kind = "fixed"
    /\ endpoint.rows = <<"a", "b", "a", "a", "b">>
    /\ page_size = 2
    /\ max_pages = 3
    /\ page_lens = <<2, 2, 1>>
    /\ all_rows = endpoint.rows

C7_Safety ==
    /\ Len(requested) <= max_pages
    /\ \A i \in 1..Len(requested) : requested[i] = i - 1
    /\ \A i \in 1..Len(page_lens) :
          (page_lens[i] = 0 \/ page_lens[i] < page_size) => i = Len(requested)
    /\ pg_pc \in {"done", "raised"} => ~ENABLED NextPages

\* C7: get_prices_all terminates whatever the endpoint returns; it requests the
\* pages 0, 1, 2, ... consecutively, none after the first page that is empty or
\* shorter than page_size, and never more than max_pages.
C7_TerminatesWithinCeiling ==
    [](C7_Safety) /\ <>(pg_pc \in {"done", "raised"})

\* C7 witness: an endpoint that keeps answering with full or overfull pages was
\* stopped by the ceiling after max_pages requests.
C7_Witness ==
    /\ pg_pc = "done"
    /\ endpoint.kind = "arbitrary"
    /\ max_pages >= 2
    /\ Len(requested) = max_pages
    /\ \A i \in 1..Len(page_lens) : page_lens[i] >= page_size
    /\ \E i \in 1..Len(page_lens) : page_lens[i] > page_size

\* every one of the first max_pages pages came back with page_size rows
AllPagesFull ==
    /\ Len(page_lens) = max_pages
    /\ \A i \in 1..Len(page_lens) : page_lens[i] = page_size

\* C14: when every one of the first max_pages pages is full, get_prices_all
\* requests no further page and raises nothing; it returns, as a normal
\* result, the rows of exactly those pages, which for a longer list is its
\* prefix of max_pages * page_size rows.
C14_CeilingReturnsNormally ==
    AllPagesFull =>
        /\ pg_pc \in {"loop", "done"}
        /\ Len(requested) = max_pages
        /\ pg_pc = "loop" => page = max_pages
        /\ Len(all_rows) = max_pages * page_size
        /\ endpoint.kind = "fixed" =>
               all_rows = SubSeq(endpoint.rows, 1, max_pages * page_size)

\* C14 witness: a list of five rows read with page size two and a ceiling of
\* two pages ended as a normal return of the first four rows.
C14_Witness ==
    /\ pg_pc = "done"
    /\ AllPagesFull
    /\ endpoint.kind = "fixed"
    /\ page_size = 2
    /\ max_pages = 2
    /\ Len(endpoint.rows) = 5
    /\ all_rows = SubSeq(endpoint.rows, 1, 4)

(***************************************************************************)
(* Claims about the active flag, checked under SpecActive.                 *)
(***************************************************************************)
\* the day of the row, found from its ISO string without parsing it
DayOfRow == CHOOSE d \in SeasonStart..SeasonEnd : isoformat(d) = valid_from

\* the remaining days as the rule states them, by position in the range
Remaining(d) ==
    CASE d = SeasonStart -> 2
      [] d = SeasonStart + 1 -> 1
      [] SeasonStart + 1 < d /\ d < SeasonStart + 6 -> 0
      [] OTHER -> (SeasonEnd - d) + 1

\* the product's duration in days: 1 for '4h', N for '<N>d'
DurationDays == IF duration_code.unit = "h" THEN 1 ELSE duration_code.n

\* C8: for every day d of the season and every duration n,
\* active = (remaining(d) >= n); a day of the closure week is inactive and the
\* last day of the range is active only for a duration of at most one day.
C8_ActiveIffRemainingCoversDuration ==
    act_pc = "done" =>
        /\ active = (Remaining(DayOfRow) >= DurationDays)
        /\ valid_from \in { <<2025, 12, k>> : k \in 15..18 } => ~active
        /\ valid_from = <<2026, 4, 12>> => (active <=> DurationDays <= 1)

\* C8 witness: a one-day product on 2025-12-16, inside the closure week, came
\* out inactive.
C8_Witness ==
    /\ act_pc = "done"
    /\ valid_from = <<2025, 12, 16>>
    /\ duration_code = [n |-> 1, unit |-> "d"]
    /\ ~active

\* C20: for one product with a duration of at least one day, along the days
\* from 2025-12-19 to the end of the range in calendar order, a row that is
\* not active is never followed by a row that is active.
C20_ActiveNeverReturns ==
    [][(/\ act_pc \in {"done", "walk"}
        /\ act_pc' = "walk"
        /\ DurationDays >= 1
        /\ strptime(valid_from) >= date(2025, 12, 19)
        /\ ~active) => ~active']_vars

\* C20 witness: walking the days of a five-day product reached the first day
\* after the reopening on which fewer than five days remain, and the row is
\* inactive.
C20_Witness ==
    /\ act_pc = "walk"
    /\ duration_code = [n |-> 5, unit |-> "d"]
    /\ DayOfRow > date(2025, 12, 19)
    /\ Remaining(DayOfRow) = 4
    /\ ~active

(***************************************************************************)
(* Claims about forward_fill_daily_grid, checked under SpecGrid.           *)
(* An event of product p is a usable change row of p; its date is the      *)
(* parsed validAt.                                                         *)
(***************************************************************************)
\* the positions in the input of the events of p with valid_at <= d
EventsUpTo(seq, p, d) ==
    { i \in 1..Len(seq) : /\ Usable(seq[i])
                          /\ seq[i].productDefinitionId = p
                          /\ strptime(seq[i].validAt) <= d }

\* the position of the event that decides the price of p on day d: greatest
\* valid_at <= d, and among those the last arrival
DecidingEvent(seq, p, d) ==
    LET E    == EventsUpTo(seq, p, d)
        maxv == Max({ strptime(seq[i].validAt) : i \in E })
    IN  Max({ i \in E : strptime(seq[i].validAt) = maxv })

\* the positions of the rows of product p in the output
RowsOfPid(out, p) == { k \in 1..Len(out) : out[k].productDefinitionId = p }

\* C1: every emitted row (p, d, price) carries the price of the event of p with
\* the greatest valid_at <= d, and of the last arrived one among several events
\* with that valid_at.
C1_PriceOfLatestEvent ==
    ff_pc = "done" =>
        \A k \in 1..Len(dense) :
            LET p == dense[k].productDefinitionId
                d == strptime(dense[k].valid_from)
            IN  /\ EventsUpTo(change_rows, p, d) # {}
                /\ dense[k].price = change_rows[DecidingEvent(change_rows, p, d)].price

\* C1 witness: a row was emitted for a day on which two events of the product
\* with different prices share the greatest valid_at <= d.
C1_Witness ==
    /\ ff_pc = "done"
    /\ \E k \in 1..Len(dense) :
          LET p == dense[k].productDefinitionId
              d == strptime(dense[k].valid_from)
              E == EventsUpTo(change_rows, p, d)
          IN  \E i, j \in E :
                 /\ i < j
                 /\ change_rows[i].validAt = change_rows[j].validAt
                 /\ change_rows[i].price # change_rows[j].price
                 /\ j = DecidingEvent(change_rows, p, d)

\* C2: product p gets a row for day d exactly when d lies in
\* [season_start, season_end] and some event of p has valid_at <= d; a product
\* with an event at or before season_start gets (season_end - season_start) + 1
\* rows, a product without a qualifying event gets none.
C2_RowsExactlyFromFirstEvent ==
    ff_pc = "done" =>
        \A p \in Pids :
            /\ \A d \in Days :
                  (\E k \in RowsOfPid(dense, p) : dense[k].valid_from = isoformat(d))
                  <=> (/\ season_start <= d
                       /\ d <= season_end
                       /\ EventsUpTo(change_rows, p, d) # {})
            /\ \A k \in RowsOfPid(dense, p) : strptime(dense[k].valid_from) \in Days
            /\ EventsUpTo(change_rows, p, season_start) # {}
                  => Cardinality(RowsOfPid(dense, p)) = (season_end - season_start) + 1
            /\ EventsUpTo(change_rows, p, season_end) = {}
                  => RowsOfPid(dense, p) = {}

\* C2 witness: one product's first event falls inside the range after its first
\* day (rows from that day on only), another has an event at or before
\* season_start (a row for every day).
C2_Witness ==
    /\ ff_pc = "done"
    /\ season_start < season_end
    /\ \E p, q \in Pids :
          /\ EventsUpTo(change_rows, p, season_start) = {}
          /\ EventsUpTo(change_rows, p, season_end) # {}
          /\ RowsOfPid(dense, p) # {}
          /\ EventsUpTo(change_rows, q, season_start) # {}
          /\ Cardinality(RowsOfPid(dense, q)) = (season_end - season_start) + 1

\* the rows of a grid as a set of (product, day, price)
RowSet(out) == { out[k] : k \in 1..Len(out) }

\* two events of one product share a valid_at and differ in price
ConflictingTies(seq) ==
    \E i, j \in 1..Len(seq) :
        /\ Usable(seq[i]) /\ Usable(seq[j])
        /\ seq[i].productDefinitionId = seq[j].productDefinitionId
        /\ seq[i].validAt = seq[j].validAt
        /\ seq[i].price # seq[j].price

\* C9 as stated: reordering the input events never changes the set of rows.
C9_AnyReordering ==
    [][(ff_pc = "done" /\ ff_pc' = "done") => RowSet(dense') = RowSet(dense)]_vars

\* C9 amended: reordering the input events does not change the set of rows when
\* no two events of one product share a valid_at with different prices.
C9_ReorderingWithoutConflictingTies ==
    [][(ff_pc = "done" /\ ff_pc' = "done" /\ ~ConflictingTies(change_rows))
          => RowSet(dense') = RowSet(dense)]_vars

\* C9 witness: the grid was rebuilt from a reordered input holding two events of
\* one product with different dates and prices, and rows were emitted.
C9_Witness ==
    /\ ff_pc = "done"
    /\ reordered
    /\ ~ConflictingTies(change_rows)
    /\ dense # <<>>
    /\ \E i, j \in 1..Len(change_rows) :
          /\ Usable(change_rows[i]) /\ Usable(change_rows[j])
          /\ change_rows[i].productDefinitionId = change_rows[j].productDefinitionId
          /\ change_rows[i].validAt # change_rows[j].validAt
          /\ change_rows[i].price # change_rows[j].price

\* C10: the grid holds at most one row per (product, day).
C10_OneRowPerProductDay ==
    ff_pc = "done" =>
        \A k1, k2 \in 1..Len(dense) :
            (/\ dense[k1].productDefinitionId = dense[k2].productDefinitionId
             /\ dense[k1].valid_from = dense[k2].valid_from) => k1 = k2

\* C10 witness: two events of one product on the same day, and a row of that
\* product on or after that day.
C10_Witness ==
    /\ ff_pc = "done"
    /\ \E i, j \in 1..Len(change_rows) :
          /\ i < j
          /\ Usable(change_rows[i]) /\ Usable(change_rows[j])
          /\ change_rows[i].productDefinitionId = change_rows[j].productDefinitionId
          /\ change_rows[i].validAt = change_rows[j].validAt
          /\ \E k \in 1..Len(dense) :
                /\ dense[k].productDefinitionId = change_rows[i].productDefinitionId
                /\ StrLeq(change_rows[i].validAt, dense[k].valid_from)

====
